---- MODULE Spec2Model ----
(***************************************************************************)
(* A model of PyDuko (src/main.py): the Board and Cell classes of a 9x9    *)
(* Sudoku solver.  Python objects live in a heap: a Cell is a heap record, *)
(* a Board is a dict from (x, y) to a Cell reference, so that aliasing     *)
(* between two boards is something the model can exhibit.                  *)
(***************************************************************************)
EXTENDS Integers, Sequences, FiniteSets, TLC

VARIABLES
    heap,        \* Cell objects: reference -> [value, possibles, x, y, board]
    board,       \* Board objects by the name that holds them: the dict (x, y) -> reference
    call,        \* the last method call and what it returned or raised
    loaded,      \* per board: the string it holds unmodified since it was loaded
    nops,        \* number of mutating calls made so far
    pc,          \* position of the running solver
    stack,       \* solve_sudoku's call stack: one frame per active call
    rng,         \* state of the random module's generator
    start,       \* the cell values at the moment the solver was called
    scan,        \* solve's position in iter_cells of the current pass
    iterations,  \* solve's pass counter
    resolved,    \* cells solve assigned in the current pass
    stalled,     \* solve ended a pass that assigned nothing with cells unsolved
    backtracked  \* solve_sudoku has undone an assignment

vars == <<heap, board, call, loaded, nops, pc, stack, rng, start, scan,
          iterations, resolved, stalled, backtracked>>

----------------------------------------------------------------------------
(* Program constants *)

Side == 9
Chunk == 3
StrLen == 81

\* Python's None, as a value no cell can hold
None == -1

Range(s) == {s[i] : i \in DOMAIN s}

Digits == <<"0", "1", "2", "3", "4", "5", "6", "7", "8", "9">>

\* str.isdigit() on one character of the alphabet used here
isdigit(ch) == \E i \in DOMAIN Digits : Digits[i] = ch

\* int(ch) for a digit character
int(ch) == (CHOOSE i \in DOMAIN Digits : Digits[i] = ch) - 1

\* str(v) for a cell value
str(v) == Digits[v + 1]

----------------------------------------------------------------------------
(* Cell *)

\* Cell.__init__
Cell(b, x, y, value) ==
    [value |-> value, board |-> b, x |-> x, y |-> y,
     possibles |-> IF value # None THEN {} ELSE 1..9]

\* Cell.__eq__
CellEq(c1, c2) == c1.value = c2.value /\ c1.x = c2.x /\ c1.y = c2.y

\* Cell.clone(new_board)
CellClone(c, new_board) == Cell(new_board, c.x, c.y, c.value)

\* Cell.clear
CellClear(c) == [c EXCEPT !.value = None, !.possibles = 1..9]

\* Cell.get_chunk_number
get_chunk_number(c) == (c.y \div Chunk) * Chunk + (c.x \div Chunk)

----------------------------------------------------------------------------
(* Board: self.board is a dict from (x, y) to a Cell reference.  Every dict *)
(* the program builds (Board.__init__, and the comprehensions of clone and  *)
(* copy_from over items()) is filled in the same order, InitKeys.           *)

\* the order in which Board.__init__ inserts the keys: y outer, x inner
InitKeys == [i \in 1..(Side * Side) |-> <<(i - 1) % Side, (i - 1) \div Side>>]

\* position of a key in the dict's order
KeyPos(k) == k[2] * Side + k[1] + 1

\* a block of references the heap does not use yet
FreshBase(h) ==
    LET free(k) == \A i \in 1..(Side * Side) : (k * Side * Side + i) \notin DOMAIN h
    IN  (CHOOSE k \in 0..3 : free(k) /\ \A j \in 0..(k - 1) : ~free(j)) * Side * Side

\* dict.values() of a board
Values(d) == [i \in 1..(Side * Side) |-> d[InitKeys[i]]]

\* Board.iter_cells: the cell references in y-outer, x-inner order
iter_cells(d) == [i \in 1..(Side * Side) |-> d[<<(i - 1) % Side, (i - 1) \div Side>>]]

\* Board.get_cell
get_cell(h, d, x, y) == h[d[<<x, y>>]].value

\* Board.get_row
get_row(h, d, y) ==
    SelectSeq([i \in 1..Side |-> h[d[<<i - 1, y>>]].value], LAMBDA v : v # None)

\* Board.get_column
get_column(h, d, x) ==
    SelectSeq([i \in 1..Side |-> h[d[<<x, i - 1>>]].value], LAMBDA v : v # None)

\* get_chunk with the column offset not scaled by the chunk width
get_chunk_unscaled(h, d, i) ==
    LET x_start == i % Chunk
        y_start == (i \div Chunk) * Chunk
        cells == [k \in 1..(Chunk * Chunk) |->
                    h[d[<<x_start + ((k - 1) % Chunk), y_start + ((k - 1) \div Chunk)>>]].value]
    IN  SelectSeq(cells, LAMBDA v : v # None)

\* Board.get_chunk
get_chunk(h, d, i) ==
    LET x_start == (i % Chunk) * Chunk
        y_start == (i \div Chunk) * Chunk
        cells == [k \in 1..(Chunk * Chunk) |->
                    h[d[<<x_start + ((k - 1) % Chunk), y_start + ((k - 1) \div Chunk)>>]].value]
    IN  SelectSeq(cells, LAMBDA v : v # None)

\* len(set(l)) != len(l)
HasRepeat(l) == \E s \in {l} : Cardinality(Range(s)) # Len(s)

\* Board.is_valid
is_valid(h, d) ==
    \A i \in 0..(Side - 1) :
        /\ ~HasRepeat(get_row(h, d, i))
        /\ ~HasRepeat(get_column(h, d, i))
        /\ ~HasRepeat(get_chunk(h, d, i))

\* Board.get_unsolved_cells
get_unsolved_cells(h, d) ==
    LET values == Values(d)
    IN  SelectSeq(values, LAMBDA c : h[c].value = None)

\* Board.get_unsolved_count
get_unsolved_count(h, d) == Len(get_unsolved_cells(h, d))

\* all(cell.value is not None for cell in self.board.values())
all_assigned(h, d) ==
    LET values == Values(d)
    IN  \A i \in DOMAIN values : h[values[i]].value # None

\* is_solved without the validity test
is_solved_unchecked(h, d) ==
    [raised |-> FALSE, bool |-> all_assigned(h, d)]

\* Board.is_solved: it raises BoardException, or returns a bool
is_solved(h, d) ==
    IF ~is_valid(h, d)
    THEN [raised |-> TRUE, bool |-> FALSE]
    ELSE [raised |-> FALSE, bool |-> all_assigned(h, d)]

\* Board.set_cell: the heap afterwards
set_cell(h, d, x, y, value) == [h EXCEPT ![d[<<x, y>>]].value = value]

\* Board.clear_board: the heap afterwards
clear_board(h, d) ==
    LET cells == Range(iter_cells(d))
    IN  [c \in DOMAIN h |->
            IF c \in cells
            THEN [h[c] EXCEPT !.possibles = {}, !.value = None]
            ELSE h[c]]

\* a copy of the dict alone: the new board refers to the cells of the old one
ShallowCopy(h, d, target) == [dict |-> d, cells |-> <<>>]

\* {k: v.clone(target) for k, v in d.items()}: the new dict and its new cells
CloneCells(h, d, target) ==
    CHOOSE new \in
        {[dict  |-> [k \in DOMAIN d |-> base + KeyPos(k)],
          cells |-> [c \in (base + 1)..(base + Side * Side) |->
                       CellClone(h[d[InitKeys[c - base]]], target)]] :
         base \in {FreshBase(h)}} : TRUE

\* the heap with new cells added
Alloc(h, cells) ==
    [c \in DOMAIN h \cup DOMAIN cells |-> IF c \in DOMAIN cells THEN cells[c] ELSE h[c]]

\* Python frees what no board refers to any more
Collect(h, bd) ==
    LET live == UNION {Range(Values(bd[n])) : n \in DOMAIN bd}
    IN  [c \in DOMAIN h \cap live |-> h[c]]

\* Board.clone: the new board's dict and cells, for the name that will hold it
clone(h, d, new_board) == CloneCells(h, d, new_board)

\* Board.copy_from: self's new dict and cells
copy_from(h, self, d) == CloneCells(h, d, self)

\* Board.__eq__
BoardEq(h, d1, d2) ==
    \A i \in 1..(Side * Side) :
        LET cell == h[iter_cells(d1)[i]]
        IN  CellEq(cell, h[d2[<<cell.x, cell.y>>]])

\* would_be_valid without the set_cell on the clone
would_be_valid_unset(h, d, x, y, value) ==
    \E c \in {clone(h, d, "clone")} : is_valid(Alloc(h, c.cells), c.dict)

\* Board.would_be_valid
would_be_valid(h, d, x, y, value) ==
    \E c \in {clone(h, d, "clone")} :
        \E h2 \in {set_cell(Alloc(h, c.cells), c.dict, x, y, value)} :
            is_valid(h2, c.dict)

\* load_from_string with x and y exchanged
load_from_string_transposed(h, d, board_string) ==
    LET h1 == clear_board(h, d)
    IN  [c \in DOMAIN h1 |->
            IF \E i \in 0..(Len(board_string) - 1) : d[<<i \div Side, i % Side>>] = c
            THEN LET i == CHOOSE j \in 0..(Len(board_string) - 1) : d[<<j \div Side, j % Side>>] = c
                     value == board_string[i + 1]
                 IN  [h1[c] EXCEPT !.value = IF isdigit(value) THEN int(value) ELSE None]
            ELSE h1[c]]

\* Board.load_from_string, for a string of the right length: the heap afterwards.
\* The loop over enumerate(board_string) writes character i to the cell at
\* (i % 9, i // 9); the last write to a cell stands.
load_from_string(h, d, board_string) ==
    LET h1 == clear_board(h, d)
        cell == [i \in 0..(Len(board_string) - 1) |-> d[<<i % Side, i \div Side>>]]
        store(c) ==
            LET written == {i \in DOMAIN cell : cell[i] = c}
                value == board_string[(CHOOSE i \in written : \A j \in written : j <= i) + 1]
            IN  [h1[c] EXCEPT !.value = IF isdigit(value) THEN int(value) ELSE None]
        own == Range(cell)
    IN  [c \in DOMAIN h1 |-> IF c \in own THEN store(c) ELSE h1[c]]

\* Board.save_to_string
save_to_string(h, d) ==
    LET values == Values(d)
    IN  [i \in DOMAIN values |->
            IF h[values[i]].value # None THEN str(h[values[i]].value) ELSE "."]

\* Board.__init__: the new board's dict and cells
BoardInit(h, self, state) ==
    LET base  == FreshBase(h)
        dict  == [k \in Range(InitKeys) |-> base + KeyPos(k)]
        cells == [c \in (base + 1)..(base + Side * Side) |->
                    Cell(self, InitKeys[c - base][1], InitKeys[c - base][2], None)]
    IN  [dict  |-> dict,
         cells |-> IF state = <<>> THEN cells
                   ELSE load_from_string(cells, dict, state)]

\* the cell values of a board, by coordinates
Grid(h, d) == [k \in DOMAIN d |-> h[d[k]].value]

----------------------------------------------------------------------------
(* Board strings *)

\* the puzzle of test_main.py and of main.py's __main__
Puzzle ==
    <<
      ".", "1", ".", ".", "7", ".", ".", "5", ".",
      "8", ".", ".", "1", ".", ".", "7", "4", "3",
      "4", ".", ".", ".", "3", ".", "2", ".", ".",
      "7", ".", ".", ".", "1", "3", ".", ".", "6",
      ".", ".", "1", "6", ".", ".", ".", ".", ".",
      "3", "6", "8", ".", ".", "4", ".", "7", "9",
      ".", "8", "7", "3", ".", "5", "9", "6", ".",
      "9", "3", ".", ".", "2", ".", "8", ".", ".",
      ".", ".", "5", "8", "9", ".", "4", ".", "7" >>

\* test_is_valid's string: two 1s in the first row
RowClash ==
    <<
      "1", "1", ".", ".", "7", ".", ".", "5", ".",
      "8", ".", ".", "1", ".", ".", "7", "4", "3",
      "4", ".", ".", ".", "3", ".", "2", ".", ".",
      "7", ".", ".", ".", "1", "3", ".", ".", "6",
      ".", ".", "1", "6", ".", ".", ".", ".", ".",
      "3", "6", "8", ".", ".", "4", ".", "7", "9",
      ".", "8", "7", "3", ".", "5", "9", "6", ".",
      "9", "3", ".", ".", "2", ".", "8", ".", ".",
      ".", ".", "5", "8", "9", ".", "4", ".", "7" >>

\* the one completion of Puzzle
Solution ==
    <<
      "2", "1", "3", "4", "7", "9", "6", "5", "8",
      "8", "5", "9", "1", "6", "2", "7", "4", "3",
      "4", "7", "6", "5", "3", "8", "2", "9", "1",
      "7", "4", "2", "9", "1", "3", "5", "8", "6",
      "5", "9", "1", "6", "8", "7", "3", "2", "4",
      "3", "6", "8", "2", "5", "4", "1", "7", "9",
      "1", "8", "7", "3", "4", "5", "9", "6", "2",
      "9", "3", "4", "7", "2", "6", "8", "1", "5",
      "6", "2", "5", "8", "9", "1", "4", "3", "7" >>

\* a string of digits and ".": 0 is a digit, and the first row holds it twice
ZeroStr ==
    <<
      "0", ".", ".", ".", ".", ".", ".", ".", "0",
      "9", ".", ".", ".", ".", ".", ".", ".", ".",
      ".", ".", ".", ".", ".", ".", ".", ".", ".",
      ".", ".", ".", ".", ".", ".", ".", ".", ".",
      ".", ".", ".", ".", ".", ".", ".", ".", ".",
      ".", ".", ".", ".", ".", ".", ".", ".", ".",
      ".", ".", ".", ".", ".", ".", ".", ".", ".",
      ".", ".", ".", "5", ".", ".", ".", ".", ".",
      ".", ".", ".", ".", ".", ".", ".", ".", "0" >>

\* a string whose blanks are not all "."
OtherBlank ==
    <<
      "x", "7", ".", ".", ".", ".", ".", ".", ".",
      "9", ".", ".", ".", ".", ".", ".", ".", "-",
      ".", ".", ".", ".", ".", ".", ".", ".", ".",
      ".", ".", ".", ".", ".", ".", ".", ".", ".",
      ".", ".", ".", ".", ".", ".", ".", ".", ".",
      ".", ".", ".", ".", ".", ".", ".", ".", ".",
      ".", ".", ".", ".", ".", ".", ".", ".", ".",
      ".", ".", ".", "5", ".", ".", ".", ".", ".",
      ".", ".", ".", ".", ".", ".", ".", ".", "." >>

\* test_board_initialization's "invalid state string": 20 characters
BadLength == [i \in 1..20 |-> "x"]

\* Board() with no state
NoState == <<>>

----------------------------------------------------------------------------
(* Bounds of the model *)

\* mutating calls in one run of the board operations
MaxOps == 2

\* seeds of the random generator: 0..MaxSeed
MaxSeed == 1

\* cells blanked in Solution to make a solver input
MaxHoles == 4

\* passes of solve the model follows
MaxIterations == 5

----------------------------------------------------------------------------
(* Board operations: two boards, a = Board(state) and b = Board() *)

Names == {"a", "b"}

NoCall ==
    [op |-> "none", target |-> "none", raised |-> FALSE, bool |-> FALSE,
     text |-> <<>>, error |-> ""]

\* the calls that only read a board; a run ends with one of them
Observed == call.op \in {"save_to_string", "is_valid", "is_solved"}

\* strings Board(state) is constructed from
InitStrings == {Puzzle, RowClash, Solution}

\* strings passed to load_from_string
LoadStrings == {ZeroStr, OtherBlank, BadLength}

\* arguments of set_cell
SetCoords == {<<0, 0>>, <<1, 1>>, <<3, 0>>, <<0, 3>>}
SetValues == {1, 7}

Idle ==
    /\ pc = "idle" /\ stack = <<>> /\ rng = 0 /\ start = <<>> /\ scan = 0
    /\ iterations = 0 /\ resolved = 0 /\ stalled = FALSE /\ backtracked = FALSE

InitBoard ==
    \E s \in InitStrings :
        LET a == BoardInit(<<>>, "a", s)
            b == BoardInit(a.cells, "b", NoState)
        IN  /\ heap = Alloc(a.cells, b.cells)
            /\ board = [n \in Names |-> IF n = "a" THEN a.dict ELSE b.dict]
            /\ call = NoCall
            /\ loaded = [n \in Names |-> IF n = "a" THEN s ELSE <<>>]
            /\ nops = 0
            /\ Idle

SolverIdle == UNCHANGED <<pc, stack, rng, start, scan, iterations, resolved, stalled, backtracked>>

\* t.set_cell(x, y, value)
SetCell(t, x, y, value) ==
    /\ nops < MaxOps /\ ~Observed
    /\ heap' = set_cell(heap, board[t], x, y, value)
    /\ call' = [NoCall EXCEPT !.op = "set_cell", !.target = t]
    /\ loaded' = [loaded EXCEPT ![t] = <<>>]
    /\ nops' = nops + 1
    /\ UNCHANGED board
    /\ SolverIdle

\* t.clear_board()
ClearBoard(t) ==
    /\ nops < MaxOps /\ ~Observed
    /\ heap' = clear_board(heap, board[t])
    /\ call' = [NoCall EXCEPT !.op = "clear_board", !.target = t]
    /\ loaded' = [loaded EXCEPT ![t] = <<>>]
    /\ nops' = nops + 1
    /\ UNCHANGED board
    /\ SolverIdle

\* t = src.clone()
Clone(src, t) ==
    /\ nops < MaxOps /\ ~Observed
    /\ src # t
    /\ LET c == clone(heap, board[src], t)
       IN  /\ board' = [board EXCEPT ![t] = c.dict]
           /\ heap' = Collect(Alloc(heap, c.cells), board')
    /\ call' = [NoCall EXCEPT !.op = "clone", !.target = t]
    /\ loaded' = [loaded EXCEPT ![t] = <<>>]
    /\ nops' = nops + 1
    /\ SolverIdle

\* t.copy_from(src)
CopyFrom(t, src) ==
    /\ nops < MaxOps /\ ~Observed
    /\ src # t
    /\ LET c == copy_from(heap, t, board[src])
       IN  /\ board' = [board EXCEPT ![t] = c.dict]
           /\ heap' = Collect(Alloc(heap, c.cells), board')
    /\ call' = [NoCall EXCEPT !.op = "copy_from", !.target = t]
    /\ loaded' = [loaded EXCEPT ![t] = <<>>]
    /\ nops' = nops + 1
    /\ SolverIdle

\* t.load_from_string(s)
Load(t, s) ==
    /\ nops < MaxOps /\ ~Observed
    /\ nops' = nops + 1
    /\ IF Len(s) # StrLen
       THEN /\ call' = [NoCall EXCEPT !.op = "load_from_string", !.target = t, !.raised = TRUE]
            /\ UNCHANGED <<heap, loaded>>
       ELSE /\ heap' = load_from_string(heap, board[t], s)
            /\ call' = [NoCall EXCEPT !.op = "load_from_string", !.target = t]
            /\ loaded' = [loaded EXCEPT ![t] = s]
    /\ UNCHANGED board
    /\ SolverIdle

\* t.save_to_string()
Save(t) ==
    /\ ~Observed
    /\ call' = [NoCall EXCEPT !.op = "save_to_string", !.target = t,
                              !.text = save_to_string(heap, board[t])]
    /\ UNCHANGED <<heap, board, loaded, nops>>
    /\ SolverIdle

\* t.is_valid()
IsValid(t) ==
    /\ ~Observed
    /\ call' = [NoCall EXCEPT !.op = "is_valid", !.target = t,
                              !.bool = is_valid(heap, board[t])]
    /\ UNCHANGED <<heap, board, loaded, nops>>
    /\ SolverIdle

\* t.is_solved()
IsSolved(t) ==
    /\ ~Observed
    /\ LET r == is_solved(heap, board[t])
       IN  call' = [NoCall EXCEPT !.op = "is_solved", !.target = t,
                                  !.raised = r.raised, !.bool = r.bool]
    /\ UNCHANGED <<heap, board, loaded, nops>>
    /\ SolverIdle

NextBoard ==
    \E t \in Names :
        \/ \E k \in SetCoords, v \in SetValues : SetCell(t, k[1], k[2], v)
        \/ ClearBoard(t)
        \/ \E src \in Names : Clone(src, t)
        \/ \E src \in Names : CopyFrom(t, src)
        \/ \E s \in LoadStrings : Load(t, s)
        \/ Save(t)
        \/ IsValid(t)
        \/ IsSolved(t)

SpecBoard == InitBoard /\ [][NextBoard]_vars

----------------------------------------------------------------------------
(* Solver inputs: boards Board(state) the solvers are called on *)

Empty == [i \in 1..StrLen |-> "."]

\* string positions blanked in Solution: the four corners of a rectangle
\* (rows 0 and 1, columns 4 and 6, holding 7 6 / 6 7) and three more cells
HoleCells == {5, 7, 14, 16, 1, 15, 81}

Blank(s, H) == [i \in 1..Len(s) |-> IF i \in H THEN "." ELSE s[i]]

\* a 7 written over the 4 of the last row
Poke(s) == [s EXCEPT ![79] = "7"]

HoleSets == {H \in SUBSET HoleCells : Cardinality(H) <= MaxHoles}

SolverInputs ==
    {Puzzle, Empty, RowClash}
        \cup {Blank(Solution, H) : H \in HoleSets}
        \cup {Poke(Blank(Solution, H)) : H \in HoleSets}

BoardIdle == UNCHANGED <<board, loaded, nops>>

InitSolver(s, seed, op) ==
    LET a == BoardInit(<<>>, "a", s)
    IN  /\ heap = a.cells
        /\ board = [n \in {"a"} |-> a.dict]
        /\ call = [NoCall EXCEPT !.op = op, !.target = "a"]
        /\ loaded = [n \in {"a"} |-> s]
        /\ nops = 0
        /\ stack = <<>>
        /\ rng = seed
        /\ start = Grid(a.cells, a.dict)
        /\ scan = 0
        /\ iterations = 1
        /\ resolved = 0
        /\ stalled = FALSE
        /\ backtracked = FALSE

----------------------------------------------------------------------------
(* random.shuffle: Fisher-Yates over a linear congruential generator *)

NextRandom(r) == (r * 25173 + 13849) % 65536

\* random's _randbelow(n) on generator state r
randbelow(r, n) == (r \div 256) % n

Swap(x, i, j) == [x EXCEPT ![i] = x[j], ![j] = x[i]]

\* for i in reversed(range(1, len(x))): j = randbelow(i + 1); x[i], x[j] = x[j], x[i]
RECURSIVE ShuffleFrom(_, _, _)
ShuffleFrom(x, r, i) ==
    IF i < 1 THEN [nums |-> x, rng |-> r]
    ELSE CHOOSE out \in
             UNION {{ShuffleFrom(swapped, r2, i - 1) :
                        swapped \in {Swap(x, i + 1, randbelow(r2, i + 1) + 1)}} :
                    r2 \in {NextRandom(r)}} : TRUE

\* random.shuffle(nums): the shuffled list and the generator afterwards
shuffle(x, r) == ShuffleFrom(x, r, Len(x) - 1)

----------------------------------------------------------------------------
(* Board.solve_sudoku, one step at a time.  A frame of the stack is one     *)
(* active call: the cell it found unassigned, its shuffled nums, and the    *)
(* index of the num its inner loop is at.                                   *)

\* for cell in self.iter_cells(): if cell.value is None
FirstUnassigned(h, d) ==
    LET open == SelectSeq(iter_cells(d), LAMBDA c : h[c].value = None)
    IN  IF open = <<>> THEN 0 ELSE Head(open)

Top == stack[Len(stack)]

Pop == SubSeq(stack, 1, Len(stack) - 1)

\* a call of solve_sudoku begins: it finds no unassigned cell and returns True,
\* or shuffles nums for the first one
SudokuEnter ==
    /\ pc = "call"
    /\ \E cell \in {FirstUnassigned(heap, board["a"])},
          sh \in {shuffle(<<1, 2, 3, 4, 5, 6, 7, 8, 9>>, rng)} :
           IF cell = 0
           THEN /\ pc' = "return"
                /\ call' = [call EXCEPT !.bool = TRUE]
                /\ UNCHANGED <<stack, rng>>
           ELSE /\ pc' = "loop"
                /\ stack' = Append(stack, [x |-> heap[cell].x, y |-> heap[cell].y,
                                           nums |-> sh.nums, i |-> 1])
                /\ rng' = sh.rng
                /\ UNCHANGED call
    /\ UNCHANGED <<heap, start, scan, iterations, resolved, stalled, backtracked>>
    /\ BoardIdle

\* for num in nums: if would_be_valid holds the num is assigned and solve_sudoku
\* called, otherwise the loop goes on
SudokuTry ==
    /\ pc = "loop"
    /\ Top.i <= Len(Top.nums)
    /\ \E ok \in {would_be_valid(heap, board["a"], Top.x, Top.y, Top.nums[Top.i])} :
           IF ok
           THEN /\ heap' = [heap EXCEPT ![board["a"][<<Top.x, Top.y>>]].value = Top.nums[Top.i]]
                /\ pc' = "call"
                /\ UNCHANGED stack
           ELSE /\ stack' = [stack EXCEPT ![Len(stack)].i = Top.i + 1]
                /\ UNCHANGED <<heap, pc>>
    /\ UNCHANGED <<call, rng, start, scan, iterations, resolved, stalled, backtracked>>
    /\ BoardIdle

\* nums is exhausted and the call returns True
SudokuExhaustedTrue ==
    /\ pc = "loop"
    /\ Top.i > Len(Top.nums)
    /\ stack' = Pop
    /\ pc' = "return"
    /\ call' = [call EXCEPT !.bool = TRUE]
    /\ UNCHANGED <<heap, rng, start, scan, iterations, resolved, stalled, backtracked>>
    /\ BoardIdle

\* nums is exhausted: return False
SudokuExhausted ==
    /\ pc = "loop"
    /\ Top.i > Len(Top.nums)
    /\ stack' = Pop
    /\ pc' = "return"
    /\ call' = [call EXCEPT !.bool = FALSE]
    /\ UNCHANGED <<heap, rng, start, scan, iterations, resolved, stalled, backtracked>>
    /\ BoardIdle

\* the inner call returned True: return True
SudokuSucceed ==
    /\ pc = "return"
    /\ stack # <<>>
    /\ call.bool
    /\ stack' = Pop
    /\ UNCHANGED <<heap, call, pc, rng, start, scan, iterations, resolved, stalled, backtracked>>
    /\ BoardIdle

\* a backtrack that leaves the failed assignment in place
SudokuBacktrackKeep ==
    /\ pc = "return"
    /\ stack # <<>>
    /\ ~call.bool
    /\ stack' = [stack EXCEPT ![Len(stack)].i = Top.i + 1]
    /\ pc' = "loop"
    /\ backtracked' = TRUE
    /\ UNCHANGED <<heap, call, rng, start, scan, iterations, resolved, stalled>>
    /\ BoardIdle

\* the inner call returned False: backtrack, and the loop goes on
SudokuBacktrack ==
    /\ pc = "return"
    /\ stack # <<>>
    /\ ~call.bool
    /\ heap' = [heap EXCEPT ![board["a"][<<Top.x, Top.y>>]].value = None]
    /\ stack' = [stack EXCEPT ![Len(stack)].i = Top.i + 1]
    /\ pc' = "loop"
    /\ backtracked' = TRUE
    /\ UNCHANGED <<call, rng, start, scan, iterations, resolved, stalled>>
    /\ BoardIdle

\* the outermost call returned
SudokuDone ==
    /\ pc = "return"
    /\ stack = <<>>
    /\ pc' = "done"
    /\ UNCHANGED <<heap, call, stack, rng, start, scan, iterations, resolved, stalled, backtracked>>
    /\ BoardIdle

InitBacktrack ==
    /\ \E s \in SolverInputs, seed \in 0..MaxSeed : InitSolver(s, seed, "solve_sudoku")
    /\ pc = "call"

NextBacktrack ==
    \/ SudokuEnter
    \/ SudokuTry
    \/ SudokuExhausted
    \/ SudokuSucceed
    \/ SudokuBacktrack
    \/ SudokuDone

SpecBacktrack == InitBacktrack /\ [][NextBacktrack]_vars

\* a running call is never suspended: the interpreter takes its next step
SpecBacktrackFair == SpecBacktrack /\ WF_vars(NextBacktrack)

----------------------------------------------------------------------------
(* Board.solve, one visited cell at a time *)

\* get_possible_values without the column's values
get_possible_values_no_column(h, bd, c) ==
    IF h[c].value # None THEN {}
    ELSE LET d == bd[h[c].board]
             row == get_row(h, d, h[c].y)
             chunk == get_chunk(h, d, get_chunk_number(h[c]))
         IN  (1..9) \ (Range(row) \cup Range(chunk))

\* Cell.get_possible_values: the set stored in self.possibles
get_possible_values(h, bd, c) ==
    IF h[c].value # None THEN {}
    ELSE LET d == bd[h[c].board]
             row == get_row(h, d, h[c].y)
             col == get_column(h, d, h[c].x)
             chunk == get_chunk(h, d, get_chunk_number(h[c]))
             not_possibles == Range(row) \cup Range(col) \cup Range(chunk)
         IN  (1..9) \ not_possibles

\* the cell the for loop of solve is at
ScanCell == iter_cells(board["a"])[scan + 1]

\* the heap after cell.get_possible_values() in the loop body
Recomputed ==
    IF heap[ScanCell].value = None
    THEN [heap EXCEPT ![ScanCell].possibles = get_possible_values(heap, board, ScanCell)]
    ELSE heap

\* the heap after the loop body's two ifs, when the first does not raise
Propagated ==
    LET h == Recomputed
    IN  IF heap[ScanCell].value = None /\ Cardinality(h[ScanCell].possibles) = 1
        THEN [h EXCEPT ![ScanCell].value = CHOOSE v \in h[ScanCell].possibles : TRUE,
                       ![ScanCell].possibles = {}]
        ELSE h

Scanning == pc = "scan" /\ scan < Side * Side

SolveFrame == UNCHANGED <<stack, rng, start, backtracked>>

\* the for loop moves on, to the next cell or past the last one
Advance ==
    /\ scan' = scan + 1
    /\ pc' = IF scan + 1 = Side * Side THEN "count" ELSE "scan"

\* an unsolved cell has no possible values: raise
SolveNoPossibles ==
    /\ Scanning
    /\ heap[ScanCell].value = None
    /\ Recomputed[ScanCell].possibles = {}
    /\ heap' = Recomputed
    /\ pc' = "raised"
    /\ call' = [call EXCEPT !.raised = TRUE, !.error = "has no possible values"]
    /\ UNCHANGED <<scan, iterations, resolved, stalled>>
    /\ SolveFrame /\ BoardIdle

\* an unsolved cell has one possible value: it is assigned
SolveAssign ==
    /\ Scanning
    /\ heap[ScanCell].value = None
    /\ Cardinality(Recomputed[ScanCell].possibles) = 1
    /\ is_valid(Propagated, board["a"])
    /\ heap' = Propagated
    /\ resolved' = resolved + 1
    /\ Advance
    /\ UNCHANGED <<call, iterations, stalled>>
    /\ SolveFrame /\ BoardIdle

\* a solved cell, or an unsolved one with several possible values: nothing is assigned
SolveSkip ==
    /\ Scanning
    /\ \/ heap[ScanCell].value # None
       \/ Cardinality(Recomputed[ScanCell].possibles) > 1
    /\ is_valid(Propagated, board["a"])
    /\ heap' = Propagated
    /\ Advance
    /\ UNCHANGED <<call, iterations, resolved, stalled>>
    /\ SolveFrame /\ BoardIdle

\* the board is not valid after the cell: raise
SolveNotValid ==
    /\ Scanning
    /\ heap[ScanCell].value = None => Recomputed[ScanCell].possibles # {}
    /\ ~is_valid(Propagated, board["a"])
    /\ heap' = Propagated
    /\ pc' = "raised"
    /\ call' = [call EXCEPT !.raised = TRUE, !.error = "Board is not valid!"]
    /\ UNCHANGED <<scan, iterations, resolved, stalled>>
    /\ SolveFrame /\ BoardIdle

\* after the for loop no cell is unsolved: return
SolveReturn ==
    /\ pc = "count"
    /\ get_unsolved_count(heap, board["a"]) = 0
    /\ pc' = "returned"
    /\ UNCHANGED <<heap, call, scan, iterations, resolved, stalled>>
    /\ SolveFrame /\ BoardIdle

\* after the for loop cells are unsolved: iterations += 1 and the while loop goes on
SolveAgain ==
    /\ pc = "count"
    /\ get_unsolved_count(heap, board["a"]) # 0
    /\ iterations < MaxIterations
    /\ iterations' = iterations + 1
    /\ stalled' = (resolved = 0)
    /\ resolved' = 0
    /\ scan' = 0
    /\ pc' = "scan"
    /\ UNCHANGED <<heap, call>>
    /\ SolveFrame /\ BoardIdle

InitPropagate ==
    /\ \E s \in SolverInputs : InitSolver(s, 0, "solve")
    /\ pc = "scan"

NextPropagate ==
    \/ SolveNoPossibles
    \/ SolveAssign
    \/ SolveSkip
    \/ SolveNotValid
    \/ SolveReturn
    \/ SolveAgain

SpecPropagate == InitPropagate /\ [][NextPropagate]_vars

----------------------------------------------------------------------------
(* What the claims speak of, stated on the grid of values alone *)

Coords == (0..8) \X (0..8)

RowUnits == {{<<x, y>> : x \in 0..8} : y \in 0..8}
ColumnUnits == {{<<x, y>> : y \in 0..8} : x \in 0..8}
BlockUnits == {{<<3 * bx + i, 3 * by + j>> : i \in 0..2, j \in 0..2} : bx \in 0..2, by \in 0..2}

\* a value is held by more than one cell of one of the units
RepeatAmong(g, units) ==
    \E U \in units, v \in 0..9 : Cardinality({p \in U : g[p] = v}) > 1

RepeatIn(g) == RepeatAmong(g, RowUnits \cup ColumnUnits \cup BlockUnits)

\* every row, column and block is a permutation of 1..9
PermutationGrid(g) ==
    \A U \in RowUnits \cup ColumnUnits \cup BlockUnits : {g[p] : p \in U} = 1..9

Unassigned(g) == {k \in Coords : g[k] = None}

\* values a cell can take without repeating a value of its row, column or block
Fitting(g, k) ==
    {v \in 1..9 : \A U \in RowUnits \cup ColumnUnits \cup BlockUnits :
                     k \in U => \A q \in U : g[q] # v}

\* the grid can be completed to a valid full grid
RECURSIVE Solvable(_)
Solvable(g) ==
    IF Unassigned(g) = {} THEN ~RepeatIn(g)
    ELSE LET k == CHOOSE c \in Unassigned(g) :
                     \A o \in Unassigned(g) : Cardinality(Fitting(g, c)) <= Cardinality(Fitting(g, o))
         IN  \E v \in Fitting(g, k) : Solvable([g EXCEPT ![k] = v])

GridOf(n) == Grid(heap, board[n])

KeepsGivens == \A k \in Coords : start[k] # None => GridOf("a")[k] = start[k]

----------------------------------------------------------------------------
(* Claims about solve_sudoku, under SpecBacktrack *)

\* C1: solve_sudoku called on a valid grid that has a solution returns True and leaves
\* every row, column and block a permutation of 1..9, so that is_solved() is true
C1_SolveSudokuSolves ==
    (pc = "done" /\ ~RepeatIn(start))
        => \/ /\ call.bool
              /\ PermutationGrid(GridOf("a"))
              /\ is_solved(heap, board["a"]) = [raised |-> FALSE, bool |-> TRUE]
           \/ ~Solvable(start)

\* a partially filled valid grid was solved after at least one backtrack
C1_Witness ==
    /\ pc = "done" /\ call.bool /\ backtracked
    /\ ~RepeatIn(start)
    /\ Unassigned(start) # {} /\ Unassigned(start) # Coords
    /\ PermutationGrid(GridOf("a"))

AllUnassigned == \A k \in Coords : start[k] = None

Generated == pc = "done" /\ call.bool /\ PermutationGrid(GridOf("a"))

\* C2: solve_sudoku called on the all-unassigned grid terminates, with True and a
\* fully assigned valid grid
C2_GenerateTerminates == AllUnassigned ~> Generated

\* a grid was generated from the empty one, after at least one backtrack
C2_Witness == AllUnassigned /\ Generated /\ backtracked

\* C9: solve_sudoku never changes a cell that was assigned at the call, and when it
\* returns False the grid is cell for cell what it was at the call
C9_BacktrackRestores ==
    /\ KeepsGivens
    /\ (pc = "done" /\ ~call.bool) => GridOf("a") = start

\* a failed search that had made and undone assignments
C9_Witness ==
    /\ pc = "done" /\ ~call.bool /\ backtracked
    /\ GridOf("a") = start

----------------------------------------------------------------------------
(* Claims about solve, under SpecPropagate *)

\* C3: when a full pass of solve on a valid grid assigns nothing and cells remain
\* unsolved, solve fails with the no-possible-values (Unsolvable) error
C3_StallRaises ==
    (stalled /\ ~RepeatIn(start))
        => pc = "raised" /\ call.raised /\ call.error = "has no possible values"

\* C10: solve on a valid grid keeps the grid valid, never raises "Board is not valid!",
\* keeps every given, and returns only with a fully assigned valid grid
C10_PropagationSound ==
    ~RepeatIn(start)
        => /\ ~RepeatIn(GridOf("a"))
           /\ ~(pc = "raised" /\ call.error = "Board is not valid!")
           /\ KeepsGivens
           /\ pc = "returned" => PermutationGrid(GridOf("a"))

\* solve returned after more than one pass over a partially filled valid grid
C10_Witness ==
    /\ pc = "returned" /\ iterations > 1
    /\ ~RepeatIn(start) /\ Unassigned(start) # {}
    /\ PermutationGrid(GridOf("a"))

----------------------------------------------------------------------------
(* Claims about the board operations, under SpecBoard *)

\* C4: is_valid() returns False exactly when a row, a column or a block holds the same
\* assigned value in two cells
C4_IsValidIffNoRepeat ==
    call.op = "is_valid" => (call.bool = FALSE <=> RepeatIn(GridOf(call.target)))

\* is_valid() returned False for a grid whose only repeat is inside a block
C4_Witness ==
    /\ call.op = "is_valid" /\ ~call.bool
    /\ RepeatAmong(GridOf(call.target), BlockUnits)
    /\ ~RepeatAmong(GridOf(call.target), RowUnits \cup ColumnUnits)

\* C5: is_solved() raises exactly when the grid is invalid, and otherwise returns
\* whether all 81 cells are assigned
C5_IsSolved ==
    call.op = "is_solved"
        => /\ call.raised <=> RepeatIn(GridOf(call.target))
           /\ ~call.raised => (call.bool <=> Unassigned(GridOf(call.target)) = {})

\* is_solved() raised on a fully assigned invalid grid
C5_Witness ==
    /\ call.op = "is_solved" /\ call.raised
    /\ Unassigned(GridOf(call.target)) = {}

DigitsAndDots(s) == \A i \in DOMAIN s : isdigit(s[i]) \/ s[i] = "."

\* what a character of a board string stands for
CharValue(ch) ==
    CASE ch = "0" -> 0 [] ch = "1" -> 1 [] ch = "2" -> 2 [] ch = "3" -> 3 [] ch = "4" -> 4
      [] ch = "5" -> 5 [] ch = "6" -> 6 [] ch = "7" -> 7 [] ch = "8" -> 8 [] ch = "9" -> 9
      [] OTHER -> None

\* C6: a board loaded from an 81-character string of digits and "." holds character i
\* in the cell at (i mod 9, i div 9), and save_to_string() returns the string
C6_RoundTrip ==
    \A n \in DOMAIN board :
        (loaded[n] # <<>> /\ DigitsAndDots(loaded[n]))
            => /\ \A i \in 0..80 : GridOf(n)[<<i % 9, i \div 9>>] = CharValue(loaded[n][i + 1])
               /\ (call.op = "save_to_string" /\ call.target = n) => call.text = loaded[n]

\* a string was loaded into board a, which held Board(state)'s values, and saved
C6_Witness ==
    /\ call.op = "save_to_string" /\ call.target = "a" /\ nops = 1
    /\ loaded["a"] = ZeroStr
    /\ call.text = ZeroStr

\* C7: after clone and after copy_from the two boards are equal, and set_cell or
\* clear_board on one board changes no value of the other
C7_DeepCopies ==
    [][/\ call'.op \in {"clone", "copy_from"}
            => BoardEq(heap', board'["a"], board'["b"]) /\ GridOf("a")' = GridOf("b")'
       /\ \A n \in Names :
            (call'.op \in {"set_cell", "clear_board"} /\ call'.target # n)
                => GridOf(n)' = GridOf(n)]_vars

\* a set_cell right after a copy: both boards hold the copied values and differ in
\* the one cell that was set
C7_Witness ==
    /\ call.op = "set_cell" /\ nops = 2
    /\ \A n \in Names : Cardinality(Coords \ Unassigned(GridOf(n))) > 1
    /\ Cardinality({k \in Coords : GridOf("a")[k] # GridOf("b")[k]}) = 1

\* C8: after clear_board() every cell is unassigned and its candidate set is 1..9
C8_ClearResetsCandidates ==
    call.op = "clear_board"
        => \A k \in Coords :
              /\ heap[board[call.target][k]].value = None
              /\ heap[board[call.target][k]].possibles = 1..9

====
